---- MODULE Spec2Model ----
(***************************************************************************)
(* Model of the shiny hunting automation: the bridge (automation/bridge.py),*)
(* the game-state view (automation/state.py) and the hunting state machine  *)
(* (automation/bot.py).                                                     *)
(*                                                                          *)
(* Conventions.  An Optional value is a sequence: <<>> is None and <<v>> is *)
(* the value v.  A socket handle is "none" or "open".  A Python integer is  *)
(* a TLA+ integer, except enemy_personality: it ranges over 0..2^32-1,      *)
(* which TLC's integers cannot hold, and is kept as its two base-65536      *)
(* digits [hi, lo] (value = hi * 65536 + lo, 0 <= lo < 65536).              *)
(***************************************************************************)
EXTENDS Integers, Sequences, FiniteSets, TLC

VARIABLES
    config,             \* BotConfig: bridge_mode, macros, pp_threshold, pp_recovery_moves
    sock,               \* MgbaBridge._sock
    reader,             \* MgbaBridge._reader
    server,             \* MgbaBridge._server
    conn_state,         \* MgbaBridge._state (ConnectionState)
    mode,               \* ShinyHunterBot.mode
    encounters_seen,    \* ShinyHunterBot.encounters_seen
    current_encounter,  \* ShinyHunterBot._current_encounter
    pc,                 \* where start() is: "idle", "connecting", "loop", "raised"
    err,                \* the exception that left start(), "none" if none
    msg,                \* what the last receive_state() call read
    view,               \* the GameState view under evaluation (ViewSpec)
    ev,                 \* the calls and assignments of the last step, in order
    logged,             \* the EncounterLogger.log calls so far, in order
    sent,               \* the last MaxSent lines written to the socket, in order
    battle,             \* the wild battle the frames are in, and its log calls
    polls,              \* the parity of the number of receive_state() calls made
    waited,             \* _connect_with_retry: retry intervals slept since the deadline was set
    lock,               \* MgbaBridge._lock: "free" or the context that holds it (RaceSpec)
    ctx,                \* each execution context's position in its bridge call (RaceSpec)
    cmd_steps,          \* the MacroStep sequence handed to send_macro (CodecSpec)
    cmd_line,           \* the JSON line send_macro writes for it (CodecSpec)
    cmd_parsed,         \* what decoding that line gives: <<>> or << steps >> (CodecSpec)
    came_from           \* the mode the bot held before its current one (StepSpec)

vars == <<config, sock, reader, server, conn_state, mode, encounters_seen,
          current_encounter, pc, err, msg, view, ev, logged, sent, battle, polls,
          waited, lock, ctx, cmd_steps, cmd_line, cmd_parsed, came_from>>

bridgeVars == <<sock, reader, server, conn_state>>
botVars == <<mode, encounters_seen, current_encounter>>
raceVars == <<lock, ctx>>
codecVars == <<cmd_steps, cmd_line, cmd_parsed>>

-----------------------------------------------------------------------------
(* Bounds of the model *)

\* encounters_seen is unbounded in the code; frames that would log past it are cut off
MaxSeen == 2
\* how many of the lines last written to the socket are remembered
MaxSent == 2
\* the retry intervals that fit between _connect_with_retry's start and its deadline
MaxWait == 2
\* the longest macro and the most buttons in a step that are encoded (CodecSpec)
MaxSteps == 2
MaxButtons == 2
\* object identities of Encounter instances: an instance is only ever compared
\* with the one instance the bot keeps, so two tell every case apart
InstanceIds == {1, 2}

-----------------------------------------------------------------------------
(* automation/state.py *)

IDLE == "IDLE"
WALK_TO_GRASS == "WALK_TO_GRASS"
ENCOUNTER == "ENCOUNTER"
CATCH_SHINY == "CATCH_SHINY"
BATTLE == "BATTLE"
HEAL == "HEAL"
RETURN_TO_GRASS == "RETURN_TO_GRASS"

BotMode == {IDLE, WALK_TO_GRASS, ENCOUNTER, CATCH_SHINY, BATTLE, HEAL, RETURN_TO_GRASS}

\* 1 << 16, the weight of the upper half of a personality value
HalfWord == 65536

\* the integer hi * 65536 + lo as its two base-65536 digits
Wide(hi, lo) == [hi |-> hi, lo |-> lo]

\* Python's a ^ b on non-negative integers
RECURSIVE BitXor(_, _)
BitXor(a, b) ==
    IF a = 0 THEN b
    ELSE IF b = 0 THEN a
    ELSE (((a % 2) + (b % 2)) % 2) + (2 * BitXor(a \div 2, b \div 2))

\* pid & 0xFFFF: the value modulo 65536 (hi * 65536 is a multiple of it)
AndFFFF(pid) == pid.lo % HalfWord

\* (mutant) pid >> 16 on a value held as a signed 32-bit word: the sign is extended
ShiftRight16_signed(pid) ==
    IF pid.hi >= 32768 THEN pid.hi - HalfWord ELSE pid.hi

\* pid >> 16: the floor of the value divided by 65536
ShiftRight16(pid) == pid.hi + (pid.lo \div HalfWord)

\* dict.get(key, default)
Get(raw, key, default) == IF key \in DOMAIN raw THEN raw[key] ELSE default

\* (mutant) a missing battle flag read as set
in_battle_default_set(raw) == Get(raw, "in_battle_flag", 1) # 0

in_battle(raw) == Get(raw, "in_battle_flag", 0) # 0

player_hp(raw) == Get(raw, "player_hp", 0)

player_max_hp(raw) == Get(raw, "player_max_hp", 0)

pp_values(raw) ==
    (0 :> Get(raw, "battle_pp_1", 0)) @@ (1 :> Get(raw, "battle_pp_2", 0)) @@
    (2 :> Get(raw, "battle_pp_3", 0)) @@ (3 :> Get(raw, "battle_pp_4", 0))

is_shiny(raw) ==
    LET tid == Get(raw, "enemy_tid", 0)
        sid == Get(raw, "enemy_sid", 0)
        pid == Get(raw, "enemy_personality", Wide(0, 0))
        xor == BitXor(BitXor(BitXor(tid, sid), AndFFFF(pid)), ShiftRight16(pid))
    IN  xor < 8

\* GameState.encounter; id is the identity of the instance the property builds
encounter(raw, id) ==
    IF ~in_battle(raw) THEN <<>>
    ELSE LET species == Get(raw, "enemy_species", 0) IN
         IF species <= 0 THEN <<>>
         ELSE << [id |-> id,
                  species |-> species,
                  is_shiny |-> is_shiny(raw),
                  trainer_id |-> Get(raw, "enemy_tid", 0),
                  secret_id |-> Get(raw, "enemy_sid", 0),
                  personality |-> Get(raw, "enemy_personality", Wide(0, 0))] >>

\* every property of a GameState, read once
GameState(raw, id) ==
    [in_battle |-> in_battle(raw),
     player_hp |-> player_hp(raw),
     player_max_hp |-> player_max_hp(raw),
     pp_values |-> pp_values(raw),
     encounter |-> encounter(raw, id)]

-----------------------------------------------------------------------------
(* automation/config.py *)

PYTHON_CLIENT == "python_client"
PYTHON_SERVER == "python_server"

MacroStep(duration, buttons) == [duration |-> duration, buttons |-> buttons]

\* MacroStep.serialize: the {duration, buttons} record of one step
serialize(step) == [duration |-> step.duration, buttons |-> step.buttons]

\* the macros scripts/run_bot.py configures
to_grass == << MacroStep(60, <<"UP">>), MacroStep(20, <<"RIGHT">>) >>
to_center == << MacroStep(20, <<"LEFT">>), MacroStep(60, <<"DOWN">>) >>

BotConfig(bridge_mode, grass, center, moves) ==
    [bridge_mode |-> bridge_mode,
     to_grass_macro |-> grass,
     to_center_macro |-> center,
     pp_threshold |-> 4,
     pp_recovery_moves |-> moves]

\* the configurations the model starts from: the one scripts/run_bot.py builds,
\* the dataclass defaults in the server role, one that monitors no slot, and
\* one that monitors slot 1 and a slot outside 0..3
Configs ==
    { BotConfig(PYTHON_CLIENT, to_grass, to_center, <<0>>),
      BotConfig(PYTHON_SERVER, <<>>, <<>>, <<0>>),
      BotConfig(PYTHON_CLIENT, to_grass, <<>>, <<>>),
      BotConfig(PYTHON_SERVER, <<>>, to_center, <<1, 4>>) }

-----------------------------------------------------------------------------
(* automation/bridge.py *)

DISCONNECTED == "disconnected"
LISTENING == "listening"
CONNECTED == "connected"

Bridge(s, r, v, st) == [sock |-> s, reader |-> r, server |-> v, conn_state |-> st]

\* the bridge as the variables hold it
TheBridge == Bridge(sock, reader, server, conn_state)

\* the release steps of close(), each of which the system may fail with OSError
CloseSteps == {"reader.close", "sock.shutdown", "sock.close", "server.close"}

\* MgbaBridge.close with the release steps in `fails` raising OSError: the bridge
\* it leaves and the exception that leaves it.  The reader's, the shutdown's and
\* the server's errors are caught; the one of self._sock.close() is not, and
\* leaves with _sock, _server and _state as they were.
close(b, fails) ==
    LET afterReader == [b EXCEPT !.reader = "none"]
        afterSock == [afterReader EXCEPT !.sock = "none"]
        afterServer == [afterSock EXCEPT !.server = "none"]
    IN  IF b.sock # "none" /\ "sock.close" \in fails
        THEN [bridge |-> afterReader, err |-> "OSError"]
        ELSE [bridge |-> [afterServer EXCEPT !.conn_state = DISCONNECTED], err |-> "none"]

\* MgbaBridge._connect_as_client: dialled says whether sock.connect succeeded
connect_as_client(b, dialled) ==
    IF dialled
    THEN [bridge |-> Bridge("open", "open", b.server, CONNECTED), err |-> "none",
          binds |-> 0]
    ELSE [bridge |-> b, err |-> "OSError", binds |-> 0]

\* (mutant) _ensure_server binding a new listening socket on every call
ensure_server_rebinds(b, bound) ==
    IF ~bound THEN [bridge |-> b, err |-> "OSError", binds |-> 0]
    ELSE [bridge |-> [b EXCEPT !.server = "open", !.conn_state = LISTENING],
          err |-> "none", binds |-> 1]

\* MgbaBridge._ensure_server: bound says whether socket/bind/listen succeed;
\* binds is the number of listening sockets the call has bound and kept
ensure_server(b, bound) ==
    IF b.server # "none" /\ b.conn_state # DISCONNECTED
    THEN [bridge |-> b, err |-> "none", binds |-> 0]
    ELSE IF b.server = "none" /\ ~bound
    THEN [bridge |-> b, err |-> "OSError", binds |-> 0]
    ELSE [bridge |-> [b EXCEPT !.server = "open", !.conn_state = LISTENING],
          err |-> "none", binds |-> IF b.server = "none" THEN 1 ELSE 0]

\* (mutant) _connect_as_server releasing the listening socket when accept() fails
connect_as_server_releases(b, bound, accepted) ==
    LET ensured == ensure_server(b, bound) IN
    IF ensured.err # "none" THEN ensured
    ELSE IF ~accepted
    THEN [bridge |-> [ensured.bridge EXCEPT !.server = "none",
                                            !.conn_state = DISCONNECTED],
          err |-> "OSError", binds |-> ensured.binds]
    ELSE [bridge |-> [ensured.bridge EXCEPT !.sock = "open", !.reader = "open",
                                            !.conn_state = CONNECTED],
          err |-> "none", binds |-> ensured.binds]

\* MgbaBridge._connect_as_server: accepted says whether accept() returned a peer
\* (otherwise it timed out or was interrupted, re-raised as OSError)
connect_as_server(b, bound, accepted) ==
    LET ensured == ensure_server(b, bound) IN
    IF ensured.err # "none" THEN ensured
    ELSE IF ~accepted
    THEN [bridge |-> ensured.bridge, err |-> "OSError", binds |-> ensured.binds]
    ELSE [bridge |-> [ensured.bridge EXCEPT !.sock = "open", !.reader = "open",
                                            !.conn_state = CONNECTED],
          err |-> "none", binds |-> ensured.binds]

\* (mutant) connect without the test for a socket that is already open
connect_always_dials(b, bridge_mode, bound, peer) ==
    IF bridge_mode = PYTHON_CLIENT THEN connect_as_client(b, peer)
    ELSE connect_as_server(b, bound, peer)

\* MgbaBridge.connect
connect(b, bridge_mode, bound, peer) ==
    IF b.sock # "none" THEN [bridge |-> b, err |-> "none", binds |-> 0]
    ELSE IF bridge_mode = PYTHON_CLIENT THEN connect_as_client(b, peer)
    ELSE connect_as_server(b, bound, peer)

\* the payloads of send_macro and reset_input
MacroPayload(steps) ==
    [type |-> "macro", steps |-> [i \in 1..Len(steps) |-> serialize(steps[i])]]

ResetPayload == [type |-> "reset"]

\* (mutant) _send without the test for a missing socket
send_unguarded(s, payload, written) == IF written THEN "none" ELSE "OSError"

\* MgbaBridge._send on socket handle s: the exception it raises, "none" if the
\* line was written; written says whether sendall succeeded
send(s, payload, written) ==
    IF s = "none" THEN "RuntimeError"
    ELSE IF written THEN "none"
    ELSE "OSError"

\* the lines the emulator side may put on the connection: end of stream, a line
\* that is not JSON, an object of another type, a state object without data
EOF == [kind |-> "eof", data |-> <<>>]
Malformed == [kind |-> "malformed", data |-> <<>>]
OtherType == [kind |-> "other", data |-> <<>>]
NoData == [kind |-> "nodata", data |-> <<>>]
StateMsg(raw) == [kind |-> "state", data |-> raw]
\* receive_state() found no reader and read nothing
NoReader == [kind |-> "noreader", data |-> <<>>]
\* nothing has been read yet
NoMsg == [kind |-> "nothing", data |-> <<>>]

\* (mutant) receive_state without the check of the message type
receive_state_any_type(r, m) ==
    IF r = "none" THEN "absent"
    ELSE IF m.kind = "eof" THEN "absent"
    ELSE IF m.kind = "malformed" THEN "JSONDecodeError"
    ELSE IF m.kind = "nodata" THEN "KeyError"
    ELSE "frame"

\* MgbaBridge.receive_state on reader handle r with line m next on the wire:
\* "absent" (None), "frame" (a GameState) or the exception raised
receive_state(r, m) ==
    IF r = "none" THEN "absent"
    ELSE IF m.kind = "eof" THEN "absent"
    ELSE IF m.kind = "malformed" THEN "JSONDecodeError"
    ELSE IF m.kind # "state" /\ m.kind # "nodata" THEN "absent"
    ELSE IF m.kind = "nodata" THEN "KeyError"
    ELSE "frame"

-----------------------------------------------------------------------------
(* automation/bot.py: the mode handlers.                                    *)
(* b is the bot's fields [mode, encounters_seen, current_encounter]; cx is  *)
(* what a handler reads besides the frame: cx.config, cx.sock (the bridge's *)
(* socket handle), cx.written (whether the handler's sendall succeeds) and  *)
(* cx.id (the identity of the Encounter instance state.encounter builds).   *)
(* A handler yields [bot, ev, err]: the fields it leaves, the calls and     *)
(* assignments it made in order, and the exception it raised.               *)
(***************************************************************************)

Bot(m, n, c) == [mode |-> m, encounters_seen |-> n, current_encounter |-> c]

TheBot == Bot(mode, encounters_seen, current_encounter)

LogEv(enc, n) == [op |-> "log", enc |-> enc, n |-> n]
ModeEv(m) == [op |-> "mode", to |-> m]
SendEv(payload, e) == [op |-> "send", cmd |-> payload, err |-> e]

Outcome(b, events, e) == [bot |-> b, ev |-> events, err |-> e]

\* the fixed macros of _attack_with_best_move and _catch_sequence
attack_macro == << MacroStep(2, <<"A">>), MacroStep(2, <<"A">>) >>
catch_macro ==
    << MacroStep(2, <<"B">>), MacroStep(2, <<"DOWN">>),
       MacroStep(2, <<"A">>), MacroStep(2, <<"A">>) >>

\* self.bridge.send_macro(macro) as the last statement of a handler
send_macro(b, events, macro, cx) ==
    LET e == send(cx.sock, MacroPayload(macro), cx.written) IN
    Outcome(b, Append(events, SendEv(MacroPayload(macro), e)), e)

\* a is not b, on Optional Encounter instances
IsNot(a, b) ==
    IF a = <<>> \/ b = <<>> THEN a # b ELSE a[1].id # b[1].id

\* _ensure_macro_running
ensure_macro_running(b, macro, cx) ==
    IF macro = <<>> THEN Outcome(b, <<>>, "none")
    ELSE send_macro(b, <<>>, macro, cx)

\* (mutant) _pp_low with any() in place of all()
pp_low_any(raw, cx) ==
    LET moves == cx.config.pp_recovery_moves
        monitored == [i \in 1..Len(moves) |-> Get(pp_values(raw), moves[i], 0)]
    IN  \E i \in 1..Len(moves) : monitored[i] <= cx.config.pp_threshold

\* _pp_low
pp_low(raw, cx) ==
    LET moves == cx.config.pp_recovery_moves
        monitored == [i \in 1..Len(moves) |-> Get(pp_values(raw), moves[i], 0)]
    IN  \A i \in 1..Len(moves) : monitored[i] <= cx.config.pp_threshold

\* (mutant) _attack_with_best_move leaving the bot in BATTLE after the attack
attack_enters_battle(b, events, cx) ==
    LET s == send_macro(b, events, attack_macro, cx) IN
    IF s.err # "none" THEN s
    ELSE Outcome([b EXCEPT !.mode = BATTLE], Append(s.ev, ModeEv(BATTLE)), "none")

\* _attack_with_best_move, after the events a caller has already made
attack_with_best_move(b, events, cx) ==
    LET s == send_macro(b, events, attack_macro, cx) IN
    IF s.err # "none" THEN s
    ELSE Outcome([b EXCEPT !.mode = WALK_TO_GRASS],
                 Append(s.ev, ModeEv(WALK_TO_GRASS)), "none")

\* _decide_non_shiny_action, after the events a caller has already made
decide_non_shiny_action(b, events, raw, cx) ==
    IF pp_low(raw, cx)
    THEN send_macro([b EXCEPT !.mode = HEAL], Append(events, ModeEv(HEAL)),
                    cx.config.to_center_macro, cx)
    ELSE attack_with_best_move(b, events, cx)

\* (mutant) _handle_encounter comparing encounters by value (!=), not by identity
handle_encounter_by_value(b, raw, cx) ==
    LET enc == encounter(raw, cx.id) IN
    IF enc = <<>> THEN Outcome(b, <<>>, "none")
    ELSE
      LET fresh == \/ b.current_encounter = <<>>
                   \/ [enc[1] EXCEPT !.id = 0] # [b.current_encounter[1] EXCEPT !.id = 0]
          b1 == IF fresh
                THEN [b EXCEPT !.encounters_seen = b.encounters_seen + 1,
                               !.current_encounter = enc]
                ELSE b
          ev1 == IF fresh THEN << LogEv(enc[1], b1.encounters_seen) >> ELSE <<>>
      IN  IF enc[1].is_shiny
          THEN LET e == send(cx.sock, ResetPayload, cx.written) IN
               Outcome([b1 EXCEPT !.mode = CATCH_SHINY],
                       ev1 \o << ModeEv(CATCH_SHINY), SendEv(ResetPayload, e) >>, e)
          ELSE decide_non_shiny_action(b1, ev1, raw, cx)

\* (mutant) _handle_encounter entering CATCH_SHINY without clearing the input
handle_encounter_no_reset(b, raw, cx) ==
    LET enc == encounter(raw, cx.id) IN
    IF enc = <<>> THEN Outcome(b, <<>>, "none")
    ELSE
      LET fresh == IsNot(enc, b.current_encounter)
          b1 == IF fresh
                THEN [b EXCEPT !.encounters_seen = b.encounters_seen + 1,
                               !.current_encounter = enc]
                ELSE b
          ev1 == IF fresh THEN << LogEv(enc[1], b1.encounters_seen) >> ELSE <<>>
      IN  IF enc[1].is_shiny
          THEN Outcome([b1 EXCEPT !.mode = CATCH_SHINY],
                       Append(ev1, ModeEv(CATCH_SHINY)), "none")
          ELSE decide_non_shiny_action(b1, ev1, raw, cx)

\* (mutant) _handle_encounter going back to walking when the frame has no
\* encounter
handle_encounter_resumes_walk(b, raw, cx) ==
    LET enc == encounter(raw, cx.id) IN
    IF enc = <<>>
    THEN Outcome([b EXCEPT !.mode = WALK_TO_GRASS], << ModeEv(WALK_TO_GRASS) >>, "none")
    ELSE
      LET fresh == IsNot(enc, b.current_encounter)
          b1 == IF fresh
                THEN [b EXCEPT !.encounters_seen = b.encounters_seen + 1,
                               !.current_encounter = enc]
                ELSE b
          ev1 == IF fresh THEN << LogEv(enc[1], b1.encounters_seen) >> ELSE <<>>
      IN  IF enc[1].is_shiny
          THEN LET e == send(cx.sock, ResetPayload, cx.written) IN
               Outcome([b1 EXCEPT !.mode = CATCH_SHINY],
                       ev1 \o << ModeEv(CATCH_SHINY), SendEv(ResetPayload, e) >>, e)
          ELSE decide_non_shiny_action(b1, ev1, raw, cx)

\* (mutant) _handle_encounter without the is_shiny test: every encounter gets
\* the non-shiny action
handle_encounter_unclassified(b, raw, cx) ==
    LET enc == encounter(raw, cx.id) IN
    IF enc = <<>> THEN Outcome(b, <<>>, "none")
    ELSE
      LET fresh == IsNot(enc, b.current_encounter)
          b1 == IF fresh
                THEN [b EXCEPT !.encounters_seen = b.encounters_seen + 1,
                               !.current_encounter = enc]
                ELSE b
          ev1 == IF fresh THEN << LogEv(enc[1], b1.encounters_seen) >> ELSE <<>>
      IN  decide_non_shiny_action(b1, ev1, raw, cx)

\* (mutant) _handle_encounter handing the logger the counter as it was before
\* the increment
handle_encounter_logs_stale(b, raw, cx) ==
    LET enc == encounter(raw, cx.id) IN
    IF enc = <<>> THEN Outcome(b, <<>>, "none")
    ELSE
      LET fresh == IsNot(enc, b.current_encounter)
          b1 == IF fresh
                THEN [b EXCEPT !.encounters_seen = b.encounters_seen + 1,
                               !.current_encounter = enc]
                ELSE b
          ev1 == IF fresh THEN << LogEv(enc[1], b.encounters_seen) >> ELSE <<>>
      IN  IF enc[1].is_shiny
          THEN LET e == send(cx.sock, ResetPayload, cx.written) IN
               Outcome([b1 EXCEPT !.mode = CATCH_SHINY],
                       ev1 \o << ModeEv(CATCH_SHINY), SendEv(ResetPayload, e) >>, e)
          ELSE decide_non_shiny_action(b1, ev1, raw, cx)

\* _handle_encounter
handle_encounter(b, raw, cx) ==
    LET enc == encounter(raw, cx.id) IN
    IF enc = <<>> THEN Outcome(b, <<>>, "none")
    ELSE
      LET fresh == IsNot(enc, b.current_encounter)
          b1 == IF fresh
                THEN [b EXCEPT !.encounters_seen = b.encounters_seen + 1,
                               !.current_encounter = enc]
                ELSE b
          ev1 == IF fresh THEN << LogEv(enc[1], b1.encounters_seen) >> ELSE <<>>
      IN  IF enc[1].is_shiny
          THEN LET e == send(cx.sock, ResetPayload, cx.written) IN
               Outcome([b1 EXCEPT !.mode = CATCH_SHINY],
                       ev1 \o << ModeEv(CATCH_SHINY), SendEv(ResetPayload, e) >>, e)
          ELSE decide_non_shiny_action(b1, ev1, raw, cx)

\* (mutant) _catch_sequence throwing the ball once more on the frame that ends
\* the battle
catch_sequence_throws_last(b, raw, cx) ==
    IF ~in_battle(raw)
    THEN LET ran == send_macro(b, <<>>, catch_macro, cx)
         IN  IF ran.err # "none" THEN ran
             ELSE Outcome([b EXCEPT !.mode = RETURN_TO_GRASS],
                          Append(ran.ev, ModeEv(RETURN_TO_GRASS)), "none")
    ELSE send_macro(b, <<>>, catch_macro, cx)

\* _catch_sequence
catch_sequence(b, raw, cx) ==
    IF ~in_battle(raw)
    THEN Outcome([b EXCEPT !.mode = RETURN_TO_GRASS], << ModeEv(RETURN_TO_GRASS) >>, "none")
    ELSE send_macro(b, <<>>, catch_macro, cx)

\* _handle_battle
handle_battle(b, raw, cx) ==
    IF ~in_battle(raw)
    THEN IF b.mode = HEAL
         THEN Outcome([b EXCEPT !.mode = RETURN_TO_GRASS], << ModeEv(RETURN_TO_GRASS) >>, "none")
         ELSE Outcome([b EXCEPT !.mode = WALK_TO_GRASS], << ModeEv(WALK_TO_GRASS) >>, "none")
    ELSE attack_with_best_move(b, <<>>, cx)

\* (mutant) the walking branches never leaving for ENCOUNTER
walk_never_leaves(b, raw, cx) ==
    ensure_macro_running(b, cx.config.to_grass_macro, cx)

\* (mutant) the walking branches handling the encounter on the frame that starts it
walk_falls_through(b, raw, cx) ==
    LET ran == ensure_macro_running(b, cx.config.to_grass_macro, cx)
    IN  IF ran.err # "none" THEN ran
        ELSE IF in_battle(raw)
        THEN LET h == handle_encounter([b EXCEPT !.mode = ENCOUNTER], raw, cx)
             IN  Outcome(h.bot, ran.ev \o << ModeEv(ENCOUNTER) >> \o h.ev, h.err)
        ELSE ran

\* the WALK_TO_GRASS and RETURN_TO_GRASS branches of _step
walk(b, raw, cx) ==
    LET ran == ensure_macro_running(b, cx.config.to_grass_macro, cx)
    IN  IF ran.err # "none" THEN ran
        ELSE IF in_battle(raw)
        THEN Outcome([b EXCEPT !.mode = ENCOUNTER],
                     Append(ran.ev, ModeEv(ENCOUNTER)), "none")
        ELSE ran

\* (mutant) the HEAL branch leaving as soon as the battle is over, whatever the HP
heal_ignores_hp(b, raw, cx) ==
    LET ran == ensure_macro_running(b, cx.config.to_center_macro, cx)
    IN  IF ran.err # "none" THEN ran
        ELSE IF ~in_battle(raw)
        THEN Outcome([b EXCEPT !.mode = RETURN_TO_GRASS],
                     Append(ran.ev, ModeEv(RETURN_TO_GRASS)), "none")
        ELSE ran

\* (mutant) the HEAL branch testing for the way out before running the macro
heal_exit_first(b, raw, cx) ==
    IF ~in_battle(raw) /\ player_hp(raw) = player_max_hp(raw)
    THEN Outcome([b EXCEPT !.mode = RETURN_TO_GRASS], << ModeEv(RETURN_TO_GRASS) >>, "none")
    ELSE ensure_macro_running(b, cx.config.to_center_macro, cx)

\* the HEAL branch of _step
heal(b, raw, cx) ==
    LET ran == ensure_macro_running(b, cx.config.to_center_macro, cx)
    IN  IF ran.err # "none" THEN ran
        ELSE IF ~in_battle(raw) /\ player_hp(raw) = player_max_hp(raw)
        THEN Outcome([b EXCEPT !.mode = RETURN_TO_GRASS],
                     Append(ran.ev, ModeEv(RETURN_TO_GRASS)), "none")
        ELSE ran

\* _step
step(b, raw, cx) ==
    IF b.mode = WALK_TO_GRASS THEN walk(b, raw, cx)
    ELSE IF b.mode = ENCOUNTER THEN handle_encounter(b, raw, cx)
    ELSE IF b.mode = CATCH_SHINY THEN catch_sequence(b, raw, cx)
    ELSE IF b.mode = BATTLE THEN handle_battle(b, raw, cx)
    ELSE IF b.mode = HEAL THEN heal(b, raw, cx)
    ELSE IF b.mode = RETURN_TO_GRASS THEN walk(b, raw, cx)
    ELSE Outcome(b, <<>>, "none")

-----------------------------------------------------------------------------
(* The snapshots the emulator side sends *)

EmptyRaw == <<>>

\* out of battle, below full health
Hurt == ("in_battle_flag" :> 0) @@ ("player_hp" :> 10) @@ ("player_max_hp" :> 20)

\* the shiny encounter of the mode-transition scenario
ShinyBattle ==
    ("in_battle_flag" :> 1) @@ ("enemy_species" :> 5) @@ ("enemy_tid" :> 1) @@
    ("enemy_sid" :> 1) @@ ("enemy_personality" :> Wide(0, 0))

\* a shiny encounter in a frame that also reports PP above the threshold
ShinyHighPP ==
    ("in_battle_flag" :> 1) @@ ("enemy_species" :> 5) @@ ("enemy_tid" :> 1) @@
    ("enemy_sid" :> 1) @@ ("enemy_personality" :> Wide(0, 0)) @@
    ("battle_pp_1" :> 9) @@ ("battle_pp_2" :> 5)

\* a wild battle that is not shiny, with PP above the threshold
WildHighPP ==
    ("in_battle_flag" :> 1) @@ ("enemy_species" :> 5) @@ ("enemy_tid" :> 100) @@
    ("enemy_sid" :> 200) @@ ("enemy_personality" :> Wide(0, 0)) @@
    ("battle_pp_1" :> 9) @@ ("battle_pp_2" :> 5) @@
    ("player_hp" :> 10) @@ ("player_max_hp" :> 20)

\* the same battle with PP at the threshold
WildLowPP ==
    ("in_battle_flag" :> 1) @@ ("enemy_species" :> 5) @@ ("enemy_tid" :> 100) @@
    ("enemy_sid" :> 200) @@ ("enemy_personality" :> Wide(0, 0)) @@
    ("battle_pp_1" :> 4) @@ ("player_hp" :> 10) @@ ("player_max_hp" :> 20)

\* the battle flag set before the opponent's species is there
NoSpecies == ("in_battle_flag" :> 1) @@ ("enemy_species" :> 0)

Snapshots == {EmptyRaw, Hurt, ShinyBattle, ShinyHighPP, WildHighPP, WildLowPP, NoSpecies}

Messages == {EOF, Malformed, OtherType, NoData} \cup {StateMsg(raw) : raw \in Snapshots}

\* what identifies the wild battle a frame is in
BattleKey(raw) ==
    IF ~in_battle(raw) THEN <<>>
    ELSE << << Get(raw, "enemy_species", 0), Get(raw, "enemy_tid", 0),
               Get(raw, "enemy_sid", 0), Get(raw, "enemy_personality", Wide(0, 0)) >> >>

\* the battle record after a frame in which n log calls were made
NextBattle(bt, raw, n) ==
    IF BattleKey(raw) = <<>> THEN [key |-> <<>>, logs |-> 0]
    ELSE IF BattleKey(raw) = bt.key THEN [bt EXCEPT !.logs = bt.logs + n]
    ELSE [key |-> BattleKey(raw), logs |-> n]

\* the last MaxSent elements of s
Window(s) ==
    IF Len(s) <= MaxSent THEN s ELSE SubSeq(s, Len(s) - MaxSent + 1, Len(s))

\* the ordinals of the log calls among events, in order
Ordinals(events) ==
    LET logs == SelectSeq(events, LAMBDA e : e.op = "log")
    IN  [i \in 1..Len(logs) |-> logs[i].n]

\* the payloads among events that reached the socket, in order
Written(events) ==
    LET sends == SelectSeq(events, LAMBDA e : e.op = "send" /\ e.err = "none")
    IN  [i \in 1..Len(sends) |-> sends[i].cmd]

ReceiveEv(got) == [op |-> "receive", got |-> got]
CloseEv(e) == [op |-> "close", err |-> e]

\* the identity of a newly built Encounter: one that the live instance does not
\* have.  Identities are only ever compared, so the lowest free one stands for
\* them all.
FreshIds(cur) ==
    LET free == { i \in InstanceIds : IsNot(<< [id |-> i] >>, cur) }
    IN  { i \in free : \A j \in free : i <= j }

-----------------------------------------------------------------------------
(* The program *)

Init ==
    /\ config \in Configs
    /\ sock = "none"
    /\ reader = "none"
    /\ server = "none"
    /\ conn_state = DISCONNECTED
    /\ mode = IDLE
    /\ encounters_seen = 0
    /\ current_encounter = <<>>
    /\ pc = "idle"
    /\ err = "none"
    /\ msg = NoMsg
    /\ view = <<>>
    /\ ev = <<>>
    /\ logged = <<>>
    /\ sent = <<>>
    /\ battle = [key |-> <<>>, logs |-> 0]
    /\ polls = 0
    /\ waited = 0
    /\ came_from = IDLE
    /\ lock = "free"
    /\ ctx = <<>>
    /\ cmd_steps = <<>>
    /\ cmd_line = <<>>
    /\ cmd_parsed = <<>>

\* start() is called
Start ==
    /\ pc = "idle"
    /\ pc' = "connecting"
    /\ ev' = << [op |-> "start"] >>
    /\ UNCHANGED <<config, bridgeVars, botVars, err, msg, view, logged, sent, battle, polls,
                 waited, raceVars, codecVars, came_from>>

\* whether time.monotonic() >= deadline when an attempt has failed after w
\* retry intervals were slept: an attempt may take any time, so the deadline can
\* have passed at any failure, and it has passed once MaxWait intervals were slept
Late(w) == IF w >= MaxWait THEN {TRUE} ELSE BOOLEAN

\* (mutant) the except clause re-raising the connection error at once
on_connect_error_gives_up(late) == [pc |-> "raised", err |-> "OSError"]

\* _connect_with_retry's except clause: TimeoutError at or past the deadline,
\* otherwise sleep and try again
on_connect_error(late) ==
    IF late THEN [pc |-> "raised", err |-> "TimeoutError"]
    ELSE [pc |-> "connecting", err |-> "none"]

\* one round of _connect_with_retry's loop, and start()'s mode assignment after
\* it returns.  bound and peer are the system's answers to connect(); late says
\* whether the deadline has passed when the attempt fails; the sleep before the
\* next attempt lasts one retry interval or more.
Connect ==
    /\ pc = "connecting"
    /\ \E bound \in BOOLEAN, peer \in BOOLEAN, late \in Late(waited) :
         LET r == connect(TheBridge, config.bridge_mode, bound, peer)
             after == on_connect_error(late)
         IN
         /\ sock' = r.bridge.sock
         /\ reader' = r.bridge.reader
         /\ server' = r.bridge.server
         /\ conn_state' = r.bridge.conn_state
         /\ IF r.err = "none"
            THEN /\ mode' = WALK_TO_GRASS
                 /\ pc' = "loop"
                 /\ err' = err
                 /\ waited' = 0
                 /\ ev' = << [op |-> "connect", err |-> "none", binds |-> r.binds],
                            ModeEv(WALK_TO_GRASS) >>
            ELSE /\ mode' = mode
                 /\ pc' = after.pc
                 /\ err' = IF after.pc = "raised" THEN after.err ELSE err
                 /\ waited' \in IF after.pc = "raised" THEN {0}
                                ELSE (waited + 1)..MaxWait
                 /\ ev' = << [op |-> "connect", err |-> r.err, binds |-> r.binds] >>
    /\ UNCHANGED <<config, encounters_seen, current_encounter, msg, view, logged, sent,
                   battle, polls, raceVars, codecVars, came_from>>

\* one iteration of start()'s loop: receive_state, _step on a frame, and on an
\* exception the finally clause's close().  m is the line on the wire; the
\* handler's sendall succeeds or fails, the Encounter built has any identity
\* that no live instance has, and any of close()'s release steps may fail.
Loop ==
    /\ pc = "loop"
    /\ \E m \in Messages :
       \E got \in {receive_state(reader, m)} :
       \E out \in IF got = "frame"
                  THEN { step(TheBot, m.data,
                              [config |-> config, sock |-> sock, written |-> w, id |-> i]) :
                         w \in BOOLEAN, i \in FreshIds(current_encounter) }
                  ELSE { Outcome(TheBot, <<>>, IF got = "absent" THEN "none" ELSE got) } :
       \E fin \in IF out.err = "none" THEN { [bridge |-> TheBridge, err |-> "none"] }
                  ELSE { close(TheBridge, f) : f \in SUBSET CloseSteps } :
         /\ out.bot.encounters_seen <= MaxSeen
         /\ msg' = IF reader = "none" THEN NoReader ELSE m
         /\ mode' = out.bot.mode
         /\ encounters_seen' = out.bot.encounters_seen
         /\ current_encounter' = out.bot.current_encounter
         /\ logged' = logged \o Ordinals(out.ev)
         /\ sent' = Window(sent \o Written(out.ev))
         /\ battle' = IF got = "frame" THEN NextBattle(battle, m.data, Len(Ordinals(out.ev)))
                      ELSE battle
         /\ sock' = fin.bridge.sock
         /\ reader' = fin.bridge.reader
         /\ server' = fin.bridge.server
         /\ conn_state' = fin.bridge.conn_state
         /\ IF out.err = "none"
            THEN /\ ev' = << ReceiveEv(got) >> \o out.ev
                 /\ UNCHANGED <<pc, err>>
            ELSE /\ ev' = << ReceiveEv(got) >> \o out.ev \o << CloseEv(fin.err) >>
                 /\ pc' = "raised"
                 /\ err' = IF fin.err = "none" THEN out.err ELSE fin.err
    /\ polls' = 1 - polls
    /\ UNCHANGED <<config, view, waited, raceVars, codecVars, came_from>>

\* close() called on the bridge from outside start()'s loop; any of its release
\* steps may fail
Close ==
    /\ \E r \in { close(TheBridge, f) : f \in SUBSET CloseSteps } :
         /\ sock' = r.bridge.sock
         /\ reader' = r.bridge.reader
         /\ server' = r.bridge.server
         /\ conn_state' = r.bridge.conn_state
         /\ ev' = << CloseEv(r.err) >>
    /\ UNCHANGED <<config, botVars, pc, err, msg, view, logged, sent, battle, polls,
                 waited, raceVars, codecVars, came_from>>

Next == Start \/ Connect \/ Loop \/ Close

Spec == Init /\ [][Next]_vars

\* start()'s loop is a `while True`: an iteration that can run does run
LiveSpec == Spec /\ WF_vars(Loop)

\* _connect_with_retry's loop is a `while True` around connect() and a sleep:
\* an attempt that can be made is made
RetrySpec == Spec /\ WF_vars(Connect)

-----------------------------------------------------------------------------
(* The game-state view on its own: a snapshot is wrapped and every property  *)
(* of the view is read.                                                      *)

SnapshotKeys ==
    {"in_battle_flag", "player_hp", "player_max_hp", "battle_pp_1", "battle_pp_2",
     "battle_pp_3", "battle_pp_4", "enemy_species", "enemy_tid", "enemy_sid",
     "enemy_personality"}

\* a value for each key that is not the default the view reads for a missing one
Sample ==
    ("in_battle_flag" :> 1) @@ ("player_hp" :> 10) @@ ("player_max_hp" :> 20) @@
    ("battle_pp_1" :> 6) @@ ("battle_pp_2" :> 7) @@ ("battle_pp_3" :> 8) @@
    ("battle_pp_4" :> 9) @@ ("enemy_species" :> 5) @@ ("enemy_tid" :> 100) @@
    ("enemy_sid" :> 200) @@ ("enemy_personality" :> Wide(3, 4))

\* every subset of the keys present, the battle flag and the species taking
\* the values that decide whether there is an encounter
KeySubsetSnapshots ==
    { [k \in K |-> IF k = "in_battle_flag" THEN flag
                   ELSE IF k = "enemy_species" THEN species
                   ELSE Sample[k]] :
      K \in SUBSET SnapshotKeys, flag \in {0, 1}, species \in {-1, 0, 5} }

\* 16-bit values around the threshold 8, the examples' 100 and 200, and the
\* values with the top bit set
Halves == {0, 7, 8, 100, 200, 32768, 65535}

\* battles over every combination of identifiers drawn from Halves
IdentifierSnapshots ==
    { ("in_battle_flag" :> 1) @@ ("enemy_species" :> 5) @@ ("enemy_tid" :> t) @@
      ("enemy_sid" :> s) @@ ("enemy_personality" :> Wide(hi, lo)) :
      t \in Halves, s \in Halves, hi \in Halves, lo \in Halves }

ViewInit ==
    /\ config \in {BotConfig(PYTHON_CLIENT, to_grass, to_center, <<0>>)}
    /\ sock = "none"
    /\ reader = "none"
    /\ server = "none"
    /\ conn_state = DISCONNECTED
    /\ mode = IDLE
    /\ encounters_seen = 0
    /\ current_encounter = <<>>
    /\ pc = "idle"
    /\ err = "none"
    /\ msg \in {StateMsg(raw) : raw \in KeySubsetSnapshots \cup IdentifierSnapshots}
    /\ view = <<>>
    /\ ev = <<>>
    /\ logged = <<>>
    /\ sent = <<>>
    /\ battle = [key |-> <<>>, logs |-> 0]
    /\ polls = 0
    /\ waited = 0
    /\ came_from = IDLE
    /\ lock = "free"
    /\ ctx = <<>>
    /\ cmd_steps = <<>>
    /\ cmd_line = <<>>
    /\ cmd_parsed = <<>>

\* GameState(message["data"]) and a read of each of its properties
Wrap ==
    /\ view = <<>>
    /\ msg.kind = "state"
    /\ view' = << GameState(msg.data, 1) >>
    /\ UNCHANGED <<config, bridgeVars, botVars, pc, err, msg, ev, logged, sent, battle, polls,
                 waited, raceVars, codecVars, came_from>>

ViewNext == Wrap

ViewSpec == ViewInit /\ [][ViewNext]_vars

-----------------------------------------------------------------------------
(* The bridge under concurrent callers (RaceSpec).  Several execution        *)
(* contexts call into one MgbaBridge; a step is what a context does between  *)
(* two points at which another context may run.                              *)

\* the threads that send
Senders == {"main", "worker"}
\* the senders, a thread that calls close(), and the interrupt handler of
\* run_bot.main, which runs on the main thread's stack: while it runs the
\* main thread is suspended where the signal found it
Contexts == Senders \cup {"closer", "handler"}

\* the three send paths; each builds its payload and calls _send
SendCalls == {"send_buttons", "send_macro", "reset_input"}

\* a context at position p of bridge method c, e the exception its last call raised
Ctx(p, e, c) == [pc |-> p, err |-> e, call |-> c]

\* the handler is between its entry and its exit
HandlerActive == ctx["handler"].pc \notin {"idle", "exited", "raised"}

\* context c can take a step: the main thread is suspended while the handler
\* runs and gone once the handler has exited the process or raised into it
Running(c) ==
    IF c = "main" THEN ~HandlerActive /\ ctx["main"].pc # "stopped"
    ELSE IF c = "handler" THEN HandlerActive
    ELSE TRUE

\* the contexts after c's current call has ended with exception e ("none": it
\* returned).  In the handler, reset_input() returning leads to close(), close()
\* returning leads to sys.exit(0), and an exception leaves the handler and is
\* raised in the main thread.
Finish(c, e) ==
    IF c # "handler"
    THEN [ctx EXCEPT ![c] = Ctx(IF e = "none" THEN "returned" ELSE "raised", e, @.call)]
    ELSE IF e # "none"
    THEN [ctx EXCEPT !["handler"] = Ctx("raised", e, @.call),
                     !["main"] = Ctx("stopped", e, @.call)]
    ELSE IF ctx[c].call = "reset_input"
    THEN [ctx EXCEPT !["handler"] = Ctx("close_acquire", "none", "close")]
    ELSE [ctx EXCEPT !["handler"] = Ctx("exited", "none", @.call),
                     !["main"] = Ctx("stopped", "SystemExit", @.call)]

\* _send, `if not self._sock: raise RuntimeError(...)`, then json.dumps: the
\* handle is looked at before the lock is taken
send_check(c) ==
    /\ ctx[c].pc = "check"
    /\ lock' = lock
    /\ ctx' = IF sock = "none" THEN Finish(c, "RuntimeError")
              ELSE [ctx EXCEPT ![c].pc = "acquire"]

\* (mutant) a lock that lets the context through whoever holds it
send_acquire_unlocked(c) ==
    /\ ctx[c].pc = "acquire"
    /\ lock' = c
    /\ ctx' = [ctx EXCEPT ![c].pc = "sendall"]

\* _send, `with self._lock:` entered; threading.Lock is not reentrant: a context
\* waits while any context holds it, the thread it runs on included
send_acquire(c) ==
    /\ ctx[c].pc = "acquire"
    /\ lock = "free"
    /\ lock' = c
    /\ ctx' = [ctx EXCEPT ![c].pc = "sendall"]

\* _send, `self._sock.sendall` looked up under the lock: with _sock None the
\* attribute access raises AttributeError and the with block releases the lock
send_lookup(c) ==
    /\ ctx[c].pc = "sendall"
    /\ lock' = IF sock = "none" THEN "free" ELSE lock
    /\ ctx' = IF sock = "none" THEN Finish(c, "AttributeError")
              ELSE [ctx EXCEPT ![c].pc = "writing"]

\* _send, sendall returning or raising OSError, and the lock released
send_write(c, written) ==
    /\ ctx[c].pc = "writing"
    /\ lock' = "free"
    /\ ctx' = Finish(c, IF written THEN "none" ELSE "OSError")

\* close(), `with self._lock:` entered
close_acquire(c) ==
    /\ ctx[c].pc = "close_acquire"
    /\ lock = "free"
    /\ lock' = c
    /\ ctx' = [ctx EXCEPT ![c].pc = "closing"]

RaceInit ==
    /\ config \in Configs
    /\ \E bound \in BOOLEAN, peer \in BOOLEAN :
         LET b == connect(Bridge("none", "none", "none", DISCONNECTED),
                          config.bridge_mode, bound, peer).bridge IN
         /\ sock = b.sock
         /\ reader = b.reader
         /\ server = b.server
         /\ conn_state = b.conn_state
    /\ mode = IDLE
    /\ encounters_seen = 0
    /\ current_encounter = <<>>
    /\ pc = "idle"
    /\ err = "none"
    /\ msg = NoMsg
    /\ view = <<>>
    /\ ev = <<>>
    /\ logged = <<>>
    /\ sent = <<>>
    /\ battle = [key |-> <<>>, logs |-> 0]
    /\ polls = 0
    /\ waited = 0
    /\ came_from = IDLE
    /\ lock = "free"
    /\ ctx = [c \in Contexts |-> Ctx("idle", "none", "none")]
    /\ cmd_steps = <<>>
    /\ cmd_line = <<>>
    /\ cmd_parsed = <<>>

raceFrame == <<config, botVars, pc, err, msg, view, ev, logged, sent, battle, polls,
               waited, codecVars, came_from>>

\* a sender thread calls send_buttons, send_macro or reset_input
CallSend ==
    /\ \E c \in Senders, op \in SendCalls :
         /\ Running(c)
         /\ ctx[c].pc \in {"idle", "returned", "raised"}
         /\ ctx' = [ctx EXCEPT ![c] = Ctx("check", "none", op)]
    /\ UNCHANGED <<bridgeVars, lock, raceFrame>>

\* another thread calls close()
CallClose ==
    /\ ctx["closer"].pc \in {"idle", "returned", "raised"}
    /\ ctx' = [ctx EXCEPT !["closer"] = Ctx("close_acquire", "none", "close")]
    /\ UNCHANGED <<bridgeVars, lock, raceFrame>>

\* SIGINT arrives: handle_sigint starts on the main thread, wherever that is,
\* with bridge.reset_input()
Interrupt ==
    /\ ctx["handler"].pc = "idle"
    /\ ctx["main"].pc # "stopped"
    /\ ctx' = [ctx EXCEPT !["handler"] = Ctx("check", "none", "reset_input")]
    /\ UNCHANGED <<bridgeVars, lock, raceFrame>>

SendCheck ==
    /\ \E c \in Senders \cup {"handler"} : Running(c) /\ send_check(c)
    /\ UNCHANGED <<bridgeVars, raceFrame>>

SendAcquire ==
    /\ \E c \in Senders \cup {"handler"} : Running(c) /\ send_acquire(c)
    /\ UNCHANGED <<bridgeVars, raceFrame>>

SendLookup ==
    /\ \E c \in Senders \cup {"handler"} : Running(c) /\ send_lookup(c)
    /\ UNCHANGED <<bridgeVars, raceFrame>>

SendWrite ==
    /\ \E c \in Senders \cup {"handler"}, written \in BOOLEAN :
         Running(c) /\ send_write(c, written)
    /\ UNCHANGED <<bridgeVars, raceFrame>>

CloseAcquire ==
    /\ \E c \in {"closer", "handler"} : Running(c) /\ close_acquire(c)
    /\ UNCHANGED <<bridgeVars, raceFrame>>

\* the body of close() under the lock, and the lock released as the with block
\* is left, by return or by the OSError of self._sock.close()
CloseRelease ==
    /\ \E c \in {"closer", "handler"} :
       \E r \in { close(TheBridge, f) : f \in SUBSET CloseSteps } :
         /\ Running(c)
         /\ ctx[c].pc = "closing"
         /\ sock' = r.bridge.sock
         /\ reader' = r.bridge.reader
         /\ server' = r.bridge.server
         /\ conn_state' = r.bridge.conn_state
         /\ lock' = IF lock = c THEN "free" ELSE lock
         /\ ctx' = Finish(c, r.err)
    /\ UNCHANGED raceFrame

RaceNext ==
    \/ CallSend \/ CallClose \/ Interrupt
    \/ SendCheck \/ SendAcquire \/ SendLookup \/ SendWrite
    \/ CloseAcquire \/ CloseRelease

RaceSpec == RaceInit /\ [][RaceNext]_vars

-----------------------------------------------------------------------------
(* The bridge called directly, one call after another (ApiSpec): connect(),  *)
(* the three send paths, receive_state() and close() in any order.           *)

\* the payload of send_buttons
ButtonsPayload(buttons) == [type |-> "input", buttons |-> buttons]

\* the lines the callers of ApiSpec send: send_buttons(["A"]), send_macro of
\* the walking macro and of the empty macro, reset_input()
ApiPayloads ==
    [send_buttons |-> {ButtonsPayload(<< "A" >>)},
     send_macro |-> {MacroPayload(to_grass), MacroPayload(<<>>)},
     reset_input |-> {ResetPayload}]

apiFrame == <<config, botVars, pc, err, msg, view, logged, battle, polls, waited,
              raceVars, codecVars, came_from>>

\* connect() is called; held records whether a peer socket was open at the call
ApiConnect ==
    /\ \E bound \in BOOLEAN, peer \in BOOLEAN :
         LET r == connect(TheBridge, config.bridge_mode, bound, peer) IN
         /\ sock' = r.bridge.sock
         /\ reader' = r.bridge.reader
         /\ server' = r.bridge.server
         /\ conn_state' = r.bridge.conn_state
         /\ ev' = << [op |-> "connect", err |-> r.err, held |-> sock # "none",
                       binds |-> r.binds] >>
    /\ UNCHANGED <<sent, apiFrame>>

\* send_buttons(), send_macro() or reset_input() is called
ApiSend ==
    /\ \E op \in SendCalls, written \in BOOLEAN :
       \E payload \in ApiPayloads[op] :
         LET e == send(sock, payload, written) IN
         /\ ev' = << SendEv(payload, e) >>
         /\ sent' = IF e = "none" THEN Window(Append(sent, payload)) ELSE sent
    /\ UNCHANGED <<bridgeVars, apiFrame>>

\* receive_state() is called
ApiReceive ==
    /\ \E m \in Messages : ev' = << ReceiveEv(receive_state(reader, m)) >>
    /\ UNCHANGED <<bridgeVars, sent, apiFrame>>

ApiNext == ApiConnect \/ ApiSend \/ ApiReceive \/ Close

ApiSpec == Init /\ [][ApiNext]_vars

-----------------------------------------------------------------------------
(* The macro command on the wire (CodecSpec): send_macro serialises the steps *)
(* and _send writes json.dumps(payload) + "\n"; the line is decoded with      *)
(* json.loads and main._parse_macro.  JSON text is a sequence of tokens: the  *)
(* punctuation marks, string literals, and numbers as their decimal digits.   *)

Punct(t) == [t |-> t, v |-> <<>>]
StrTok(str) == [t |-> "str", v |-> str]
NumTok(ds) == [t |-> "num", v |-> ds]

\* the decimal digits of the non-negative integer n, most significant first
RECURSIVE ToDigits(_)
ToDigits(n) == IF n < 10 THEN << n >> ELSE Append(ToDigits(n \div 10), n % 10)

\* the integer with decimal digits ds
RECURSIVE FromDigits(_)
FromDigits(ds) ==
    IF Len(ds) = 0 THEN 0
    ELSE 10 * FromDigits(SubSeq(ds, 1, Len(ds) - 1)) + ds[Len(ds)]

\* json.dumps of a list of strings
RECURSIVE DumpsStrings(_)
DumpsStrings(strs) ==
    IF Len(strs) = 0 THEN <<>>
    ELSE IF Len(strs) = 1 THEN << StrTok(strs[1]) >>
    ELSE << StrTok(strs[1]), Punct(",") >> \o DumpsStrings(Tail(strs))

\* json.dumps of a serialised step {"duration": d, "buttons": [...]}
DumpsStep(entry) ==
    << Punct("{"), StrTok("duration"), Punct(":"), NumTok(ToDigits(entry.duration)),
       Punct(","), StrTok("buttons"), Punct(":"), Punct("[") >>
        \o DumpsStrings(entry.buttons) \o << Punct("]"), Punct("}") >>

\* json.dumps of a list of serialised steps, without the brackets
RECURSIVE DumpsSteps(_)
DumpsSteps(entries) ==
    IF Len(entries) = 0 THEN <<>>
    ELSE IF Len(entries) = 1 THEN DumpsStep(entries[1])
    ELSE DumpsStep(entries[1]) \o << Punct(",") >> \o DumpsSteps(Tail(entries))

\* _send's json.dumps(payload) + "\n" for a macro payload
DumpsMacro(payload) ==
    << Punct("{"), StrTok("type"), Punct(":"), StrTok(payload.type), Punct(","),
       StrTok("steps"), Punct(":"), Punct("[") >>
        \o DumpsSteps(payload.steps) \o << Punct("]"), Punct("}"), Punct("\n") >>

\* json.loads on a token sequence: the value at its head and the tokens left.
\* A value is [k, v]: an int, a str, a list (sequence of values) or a dict
\* (function from keys to values, a repeated key keeping its last value).
RECURSIVE ParseValue(_), ParseItems(_, _), ParseMembers(_, _)
ParseValue(toks) ==
    LET h == Head(toks) IN
    IF h.t = "num" THEN [val |-> [k |-> "int", v |-> FromDigits(h.v)], rest |-> Tail(toks)]
    ELSE IF h.t = "str" THEN [val |-> [k |-> "str", v |-> h.v], rest |-> Tail(toks)]
    ELSE IF h.t = "[" THEN ParseItems(Tail(toks), <<>>)
    ELSE ParseMembers(Tail(toks), <<>>)

ParseItems(toks, items) ==
    IF Head(toks).t = "]" THEN [val |-> [k |-> "list", v |-> items], rest |-> Tail(toks)]
    ELSE IF Head(toks).t = "," THEN ParseItems(Tail(toks), items)
    ELSE LET r == ParseValue(toks) IN ParseItems(r.rest, Append(items, r.val))

ParseMembers(toks, members) ==
    IF Head(toks).t = "}" THEN [val |-> [k |-> "dict", v |-> members], rest |-> Tail(toks)]
    ELSE IF Head(toks).t = "," THEN ParseMembers(Tail(toks), members)
    ELSE LET r == ParseValue(Tail(Tail(toks)))
         IN  ParseMembers(r.rest, (Head(toks).v :> r.val) @@ members)

Loads(toks) == ParseValue(toks).val

\* whether entry (a dict) is one _parse_macro accepts: int(entry["duration"])
\* works and "buttons", when given, is a string or an iterable
ValidEntry(entry) ==
    /\ entry.k = "dict"
    /\ "duration" \in DOMAIN entry.v
    /\ entry.v["duration"].k = "int"
    /\ "buttons" \in DOMAIN entry.v => entry.v["buttons"].k \in {"str", "list"}

\* the MacroStep _parse_macro builds from one entry: a single string is one
\* button, an iterable is read item by item, a missing key is no button
ParseEntry(entry) ==
    LET given == IF "buttons" \in DOMAIN entry.v THEN entry.v["buttons"]
                 ELSE [k |-> "list", v |-> <<>>]
        buttons_list == IF given.k = "str" THEN << given.v >>
                        ELSE [i \in 1..Len(given.v) |-> given.v[i].v]
    IN  MacroStep(entry.v["duration"].v, buttons_list)

\* (mutant) _parse_macro putting each step in front of those read before it
parse_macro_prepends(raw_steps) ==
    IF \E i \in 1..Len(raw_steps) : ~ValidEntry(raw_steps[i])
    THEN [err |-> "ValueError", steps |-> <<>>]
    ELSE [err |-> "none",
          steps |-> [i \in 1..Len(raw_steps) |->
                        ParseEntry(raw_steps[Len(raw_steps) + 1 - i])]]

\* main._parse_macro: the steps in the order read, or ValueError
parse_macro(raw_steps) ==
    IF \E i \in 1..Len(raw_steps) : ~ValidEntry(raw_steps[i])
    THEN [err |-> "ValueError", steps |-> <<>>]
    ELSE [err |-> "none",
          steps |-> [i \in 1..Len(raw_steps) |-> ParseEntry(raw_steps[i])]]

\* the sequences over S of length at most n
SeqUpTo(S, n) == UNION { [1..m -> S] : m \in 0..n }

\* durations of one and of two digits, zero among them; button names
Durations == {0, 60}
ButtonNames == {"A", "DOWN"}

\* the macros handed to send_macro: every sequence of at most MaxSteps steps,
\* each holding at most MaxButtons buttons, repeats allowed
Macros ==
    SeqUpTo({ MacroStep(d, b) : d \in Durations, b \in SeqUpTo(ButtonNames, MaxButtons) },
            MaxSteps)

CodecInit ==
    /\ config \in {BotConfig(PYTHON_CLIENT, to_grass, to_center, <<0>>)}
    /\ sock = "none"
    /\ reader = "none"
    /\ server = "none"
    /\ conn_state = DISCONNECTED
    /\ mode = IDLE
    /\ encounters_seen = 0
    /\ current_encounter = <<>>
    /\ pc = "idle"
    /\ err = "none"
    /\ msg = NoMsg
    /\ view = <<>>
    /\ ev = <<>>
    /\ logged = <<>>
    /\ sent = <<>>
    /\ battle = [key |-> <<>>, logs |-> 0]
    /\ polls = 0
    /\ waited = 0
    /\ came_from = IDLE
    /\ lock = "free"
    /\ ctx = <<>>
    /\ cmd_steps \in Macros
    /\ cmd_line = <<>>
    /\ cmd_parsed = <<>>

codecFrame == <<config, bridgeVars, botVars, pc, err, msg, view, ev, logged, sent, battle,
                polls, waited, raceVars, came_from>>

\* send_macro(cmd_steps): the line that goes on the wire
Encode ==
    /\ cmd_line = <<>>
    /\ cmd_line' = DumpsMacro(MacroPayload(cmd_steps))
    /\ UNCHANGED <<cmd_steps, cmd_parsed, codecFrame>>

\* the line read back: json.loads, then _parse_macro on the "steps" of the object
Decode ==
    /\ cmd_line # <<>>
    /\ cmd_parsed = <<>>
    /\ cmd_parsed' = << parse_macro(Loads(cmd_line).v["steps"].v) >>
    /\ UNCHANGED <<cmd_steps, cmd_line, codecFrame>>

CodecNext == Encode \/ Decode

CodecSpec == CodecInit /\ [][CodecNext]_vars

-----------------------------------------------------------------------------
(* _step called frame by frame on a bot whose mode field, a public attribute,
   may be assigned by the caller between two frames (StepSpec) *)

\* a bot on a bridge that has connected
StepInit ==
    /\ config \in Configs
    /\ LET b == connect(Bridge("none", "none", "none", DISCONNECTED),
                        config.bridge_mode, TRUE, TRUE).bridge IN
         /\ sock = b.sock
         /\ reader = b.reader
         /\ server = b.server
         /\ conn_state = b.conn_state
    /\ mode = IDLE
    /\ encounters_seen = 0
    /\ current_encounter = <<>>
    /\ pc = "idle"
    /\ err = "none"
    /\ msg = NoMsg
    /\ view = <<>>
    /\ ev = <<>>
    /\ logged = <<>>
    /\ sent = <<>>
    /\ battle = [key |-> <<>>, logs |-> 0]
    /\ polls = 0
    /\ waited = 0
    /\ came_from = IDLE
    /\ lock = "free"
    /\ ctx = <<>>
    /\ cmd_steps = <<>>
    /\ cmd_line = <<>>
    /\ cmd_parsed = <<>>

\* the caller assigns bot.mode
SetMode ==
    /\ \E m \in BotMode \ {mode} :
         /\ mode' = m
         /\ came_from' = mode
         /\ ev' = << ModeEv(m) >>
    /\ UNCHANGED <<config, bridgeVars, encounters_seen, current_encounter, pc, err, msg,
                   view, logged, sent, battle, polls, waited, raceVars, codecVars>>

\* _step(GameState(raw)) is called; the handler's send may fail
StepFrame ==
    /\ \E raw \in Snapshots :
       \E out \in { step(TheBot, raw,
                         [config |-> config, sock |-> sock, written |-> w, id |-> i]) :
                    w \in BOOLEAN, i \in FreshIds(current_encounter) } :
         /\ out.bot.encounters_seen <= MaxSeen
         /\ msg' = StateMsg(raw)
         /\ mode' = out.bot.mode
         /\ came_from' = IF out.bot.mode # mode THEN mode ELSE came_from
         /\ encounters_seen' = out.bot.encounters_seen
         /\ current_encounter' = out.bot.current_encounter
         /\ logged' = logged \o Ordinals(out.ev)
         /\ ev' = << [op |-> "step", err |-> out.err] >> \o out.ev
    /\ UNCHANGED <<config, bridgeVars, pc, err, view, sent, battle, polls, waited,
                   raceVars, codecVars>>

StepNext == SetMode \/ StepFrame

StepSpec == StepInit /\ [][StepNext]_vars

-----------------------------------------------------------------------------
(* Properties *)

\* the step taken is an iteration of start()'s loop
LoopStep == pc = "loop" /\ ev' # <<>> /\ ev'[1].op = "receive"

\* the iteration read a state frame and dispatched it to a mode handler
FrameStep == LoopStep /\ reader # "none" /\ msg'.kind = "state"

\* the snapshot shows a battle with an opponent: state.encounter is not None
HasEncounter(raw) ==
    /\ "in_battle_flag" \in DOMAIN raw /\ raw["in_battle_flag"] # 0
    /\ "enemy_species" \in DOMAIN raw /\ raw["enemy_species"] > 0

\* the positions in events of the events of kind op
At(events, op) == { i \in 1..Len(events) : events[i].op = op }

\* in ev' exactly one log call is made, with the encounter now kept and the new
\* counter value, and it comes before every mode assignment
LoggedOnceFirst ==
    /\ Cardinality(At(ev', "log")) = 1
    /\ \A i \in At(ev', "log") :
         /\ current_encounter' = << ev'[i].enc >>
         /\ ev'[i].n = encounters_seen'
         /\ \A j \in At(ev', "mode") : i < j

\* C1 as stated: whenever a frame carries an encounter (each is a new instance),
\* encounters_seen grows by exactly 1 and log is called exactly once with it and
\* the new counter value, before any mode assignment.
C1_EveryEncounterFrameCounted ==
    [][FrameStep /\ HasEncounter(msg'.data)
         => encounters_seen' = encounters_seen + 1 /\ LoggedOnceFirst]_vars

\* C1 amended: whenever a frame that carries an encounter is handled in mode
\* ENCOUNTER, encounters_seen grows by exactly 1 and log is called exactly once
\* with that encounter and the new counter value, before any mode assignment;
\* a frame handled in any other mode leaves the counter and the log alone.
C1_EncounterModeFrameCounted ==
    [][FrameStep
         => IF mode = ENCOUNTER /\ HasEncounter(msg'.data)
            THEN encounters_seen' = encounters_seen + 1 /\ LoggedOnceFirst
            ELSE /\ encounters_seen' = encounters_seen
                 /\ current_encounter' = current_encounter
                 /\ At(ev', "log") = {}]_vars

\* C1 witness: the second appearance of an encounter has been logged with
\* ordinal 2 and the mode assignment follows the log call
C1_Witness ==
    /\ Len(ev) >= 3
    /\ ev[2].op = "log" /\ ev[2].n = 2
    /\ ev[3].op = "mode"
    /\ encounters_seen = 2

\* C2: within one wild battle (consecutive frames in battle with the same
\* species, trainer id, secret id and personality) log is called at most once.
C2_LoggedOncePerBattle == battle.logs <= 1

\* the last line read is a frame of the shiny battle of the scenario
ShinyHeld == msg = StateMsg(ShinyBattle)

\* C3 as stated: if the frames keep showing a shiny battle and the loop keeps
\* running, the mode reaches CATCH_SHINY, whichever mode the battle began in.
C3_ShinyReachesCatch ==
    <>[](ShinyHeld /\ pc = "loop") => <>(mode = CATCH_SHINY)

\* C3 amended: if the frames keep showing a shiny battle, the loop keeps running
\* and the mode is not HEAL, the mode reaches CATCH_SHINY and stays there; a
\* frame of the shiny battle handled in HEAL leaves the mode HEAL.
C3_ShinyReachesCatchUnlessHealing ==
    /\ <>[](ShinyHeld /\ pc = "loop" /\ mode # HEAL) => <>[](mode = CATCH_SHINY)
    /\ [][FrameStep /\ mode = HEAL /\ msg'.data = ShinyBattle => mode' = HEAL]_vars

\* C3 witness: the shiny battle is showing and the mode has become CATCH_SHINY
C3_Witness ==
    /\ ShinyHeld /\ pc = "loop" /\ mode = CATCH_SHINY
    /\ \E i \in 1..Len(ev) : ev[i] = ModeEv(CATCH_SHINY)

\* C4 as stated: in WALK_TO_GRASS, once the scenario's shiny frame has been
\* handled the mode is CATCH_SHINY.
C4_OneFrameToCatch ==
    [][FrameStep /\ mode = WALK_TO_GRASS /\ msg'.data = ShinyBattle /\ pc' = "loop"
         => mode' = CATCH_SHINY]_vars

\* C4 amended: in WALK_TO_GRASS the scenario's shiny frame drives the mode to
\* ENCOUNTER only, with nothing logged and no reset sent; the next frame of that
\* battle, handled in ENCOUNTER, drives it to CATCH_SHINY.
C4_TwoFramesToCatch ==
    [][FrameStep /\ msg'.data = ShinyBattle /\ pc' = "loop"
         => /\ mode = WALK_TO_GRASS
                => /\ mode' = ENCOUNTER
                   /\ At(ev', "log") = {}
                   /\ \A i \in At(ev', "send") : ev'[i].cmd # ResetPayload
            /\ mode = ENCOUNTER => mode' = CATCH_SHINY]_vars

\* C4 witness: the second frame of the scenario's battle has been handled: the
\* encounter is logged as the first one and the mode is CATCH_SHINY
C4_Witness ==
    /\ msg = StateMsg(ShinyBattle) /\ pc = "loop"
    /\ mode = CATCH_SHINY /\ encounters_seen = 1 /\ battle.logs = 1
    /\ Len(ev) = 4 /\ ev[2].op = "log" /\ ev[3] = ModeEv(CATCH_SHINY)

CatchPayload == MacroPayload(catch_macro)

\* C5: a step that enters CATCH_SHINY issues exactly one command, the reset; a
\* catch macro is issued only in mode CATCH_SHINY and only when the line last
\* written to the socket is that reset or an earlier catch macro, so that every
\* catch macro has the reset of its visit before it.
C5_ResetBeforeCatchMacro ==
    [][LoopStep
         => /\ mode # CATCH_SHINY /\ mode' = CATCH_SHINY
                => /\ Cardinality(At(ev', "send")) = 1
                   /\ \A i \in At(ev', "send") : ev'[i].cmd = ResetPayload
            /\ \A i \in At(ev', "send") :
                 ev'[i].cmd = CatchPayload
                    => /\ mode = CATCH_SHINY
                       /\ sent # <<>>
                       /\ sent[Len(sent)] \in {ResetPayload, CatchPayload}]_vars

\* C5 witness: the reset and then the first catch macro are on the wire
C5_Witness ==
    /\ mode = CATCH_SHINY
    /\ Len(sent) >= 2
    /\ sent[Len(sent) - 1] = ResetPayload
    /\ sent[Len(sent)] = CatchPayload

\* bit i of the non-negative integer x
Bit(x, i) == (x \div (2 ^ i)) % 2

\* t ^ s ^ (p & 0xFFFF) ^ (p >> 16) < 8 for 16-bit t and s and a 32-bit unsigned
\* p: above bit 2, every bit is set in an even number of the four half-words
ShinyByParity(t, s, p) ==
    \A i \in 3..15 : (Bit(t, i) + Bit(s, i) + Bit(p.lo, i) + Bit(p.hi, i)) % 2 = 0

\* C6: the is_shiny of an encounter is the predicate on its own trainer id,
\* secret id and personality, the upper half taken without sign extension;
\* (0, 0, 0) is shiny and (100, 200, 0) is not.
C6_ShinyIsThePredicate ==
    (view # <<>> /\ view[1].encounter # <<>>)
        => LET e == view[1].encounter[1] IN
           /\ e.is_shiny = ShinyByParity(e.trainer_id, e.secret_id, e.personality)
           /\ (e.trainer_id = 0 /\ e.secret_id = 0 /\ e.personality = Wide(0, 0))
                 => e.is_shiny
           /\ (e.trainer_id = 100 /\ e.secret_id = 200 /\ e.personality = Wide(0, 0))
                 => ~e.is_shiny

\* C6 witness: a shiny encounter whose personality has its top bit set
C6_Witness ==
    /\ view # <<>> /\ view[1].encounter # <<>>
    /\ view[1].encounter[1].personality.hi = 65535
    /\ view[1].encounter[1].trainer_id = 65535
    /\ view[1].encounter[1].is_shiny

PPKey(slot) ==
    IF slot = 0 THEN "battle_pp_1" ELSE IF slot = 1 THEN "battle_pp_2"
    ELSE IF slot = 2 THEN "battle_pp_3" ELSE "battle_pp_4"

\* C7: every field of the view whose key is missing reads 0 or false, the empty
\* snapshot gives the all-default view without an encounter, and there is no
\* encounter when the battle flag is unset or the species is not positive.
C7_MissingKeysDefault ==
    view # <<>>
        => LET v == view[1]
               raw == msg.data
               Missing(k) == k \notin DOMAIN raw
           IN
           /\ Missing("in_battle_flag") => v.in_battle = FALSE
           /\ Missing("player_hp") => v.player_hp = 0
           /\ Missing("player_max_hp") => v.player_max_hp = 0
           /\ DOMAIN v.pp_values = 0..3
           /\ \A slot \in 0..3 : Missing(PPKey(slot)) => v.pp_values[slot] = 0
           /\ raw = EmptyRaw
                 => v = [in_battle |-> FALSE, player_hp |-> 0, player_max_hp |-> 0,
                         pp_values |-> [slot \in 0..3 |-> 0], encounter |-> <<>>]
           /\ ~HasEncounter(raw) => v.encounter = <<>>
           /\ HasEncounter(raw)
                 => /\ v.encounter # <<>>
                    /\ Missing("enemy_tid") => v.encounter[1].trainer_id = 0
                    /\ Missing("enemy_sid") => v.encounter[1].secret_id = 0
                    /\ Missing("enemy_personality")
                          => v.encounter[1].personality = Wide(0, 0)

\* C7 witness: a snapshot with nothing but the battle flag and the species has
\* been wrapped and gives an encounter with every other field at its default
C7_Witness ==
    /\ view # <<>>
    /\ DOMAIN msg.data = {"in_battle_flag", "enemy_species"}
    /\ view[1].encounter # <<>>
    /\ view[1].player_hp = 0

\* C8: an iteration whose receive_state() finds no reader, reads a zero-length
\* line or reads a message of another type gets None, raises nothing and leaves
\* mode, encounters_seen and the kept encounter as they were, with no log call
\* and no command sent.
C8_AbsentChangesNothing ==
    [][LoopStep /\ (reader = "none" \/ msg'.kind \in {"eof", "other"})
         => /\ ev' = << ReceiveEv("absent") >>
            /\ pc' = "loop" /\ err' = err
            /\ UNCHANGED <<mode, encounters_seen, current_encounter>>
            /\ logged' = logged /\ sent' = sent /\ battle' = battle]_vars

\* C8 witness: a message of another type was read in mode ENCOUNTER after an
\* encounter had been counted
C8_Witness ==
    /\ ev = << ReceiveEv("absent") >> /\ msg = OtherType
    /\ pc = "loop" /\ mode = ENCOUNTER /\ encounters_seen = 1

\* the step just taken ended in a call of close()
Closed == ev # <<>> /\ ev[Len(ev)].op = "close"

\* C9: whichever release steps fail, close() raises nothing, releases every
\* resource and leaves the bridge DISCONNECTED.
C9_CloseAlwaysDisconnects ==
    Closed => /\ ev[Len(ev)].err = "none"
              /\ conn_state = DISCONNECTED
              /\ sock = "none" /\ reader = "none" /\ server = "none"

\* C10: when close() is called twice in a row, neither call raises and the
\* bridge is DISCONNECTED after the first call and after the second.
C10_CloseTwice ==
    [][(Closed /\ ev' # <<>> /\ ev'[1].op = "close")
         => /\ ev[Len(ev)].err = "none" /\ conn_state = DISCONNECTED
            /\ ev'[1].err = "none" /\ conn_state' = DISCONNECTED]_vars

\* the contexts inside sendall
Writing == { c \in Contexts : ctx[c].pc = "writing" }

\* C11: whatever the interleaving of a send with a concurrent close(), a send
\* that fails fails with the not-connected RuntimeError (or with the OSError of
\* sendall itself on a socket that is held, which no close() causes), and a
\* write only ever happens on a socket that is held.
C11_SendSafeUnderClose ==
    /\ \A c \in Senders :
         ctx[c].pc = "raised" => ctx[c].err \in {"RuntimeError", "OSError"}
    /\ \A c \in Writing : sock = "open"

\* the handler waits for the bridge lock while the main thread, which cannot
\* run before the handler has returned, holds it
HandlerStuck ==
    /\ ctx["handler"].pc \in {"acquire", "close_acquire"}
    /\ lock = "main"

\* C12: there is no reachable state in which the interrupt handler waits for
\* ever for the bridge lock, also when it found the main thread inside a send.
C12_HandlerNeverStuck == ~HandlerStuck

\* C13: at most one context is inside the socket write at a time, it holds the
\* lock and the socket is held for as long as it writes; close() releases the
\* handles only while no write is in progress.
C13_WritesSerialized ==
    /\ Cardinality(Writing) <= 1
    /\ \A c \in Writing : lock = c /\ sock = "open"
    /\ \A c \in Contexts : ctx[c].pc = "closing" => Writing = {} /\ lock = c

\* C13 witness: the main thread is inside sendall while the other sender and
\* the closing thread both wait for the lock
C13_Witness ==
    /\ ctx["main"].pc = "writing"
    /\ ctx["worker"].pc = "acquire"
    /\ ctx["closer"].pc = "close_acquire"

\* the step is a call of one of the send paths in ApiSpec
ApiSendStep == ev' # <<>> /\ ev'[1].op = "send" /\ Len(ev') = 1

\* C14: with no socket open (DISCONNECTED or LISTENING) send_buttons, send_macro
\* and reset_input each raise the not-connected RuntimeError, write nothing and
\* leave the bridge as it was.
C14_SendWithoutConnection ==
    [][ApiSendStep /\ sock = "none"
         => /\ conn_state \in {DISCONNECTED, LISTENING}
            /\ ev'[1].err = "RuntimeError"
            /\ sent' = sent
            /\ UNCHANGED <<bridgeVars, lock>>]_vars

\* C14 witness: reset_input() has raised on a bridge that is listening, after
\* an earlier line had been written
C14_Witness ==
    /\ ev = << SendEv(ResetPayload, "RuntimeError") >>
    /\ conn_state = LISTENING /\ server = "open" /\ sock = "none"
    /\ sent # <<>>

\* C15: in both roles connect() with a peer socket open raises nothing and
\* leaves socket, reader, listening socket and state as they were, whatever a
\* dial, a bind or an accept would answer.
C15_ConnectIdempotent ==
    [][(ev' # <<>> /\ ev'[1].op = "connect" /\ sock # "none")
         => /\ ev'[1].err = "none"
            /\ UNCHANGED bridgeVars]_vars

\* C15 witness: connect() was called in server role with the peer socket open
C15_Witness ==
    /\ ev # <<>> /\ ev[1].op = "connect" /\ "held" \in DOMAIN ev[1] /\ ev[1].held
    /\ config.bridge_mode = PYTHON_SERVER
    /\ sock = "open" /\ server = "open" /\ conn_state = CONNECTED

\* the exceptions raised inside the loop body by the calls in events: by
\* receive_state (a line that is not JSON, a state message without data) or by
\* a mode handler's send (not connected, sendall failing)
RaisedInLoop(events) ==
    ({events[1].got} \ {"absent", "frame"})
        \cup ({events[i].err : i \in At(events, "send")} \ {"none"})

\* C16: an error raised inside start()'s loop leaves start() as that error, not
\* swallowed and not retried, and the bridge is closed (DISCONNECTED, no socket
\* held) when it reaches the caller.
C16_ScopedCleanup ==
    [][LoopStep /\ RaisedInLoop(ev') # {}
         => /\ pc' = "raised"
            /\ err' \in RaisedInLoop(ev')
            /\ conn_state' = DISCONNECTED
            /\ sock' = "none" /\ reader' = "none" /\ server' = "none"]_vars

\* a step of _connect_with_retry's loop
ConnectStep == pc = "connecting" /\ ev' # <<>> /\ ev'[1].op = "connect"

\* C17: a failed connect() is retried unless the deadline has passed, in which
\* case TimeoutError is raised; the retrying ends, in a connection or in the
\* TimeoutError; until a connect() has succeeded the mode is IDLE and nothing
\* is sent; the mode leaves IDLE only for WALK_TO_GRASS and only in the step
\* whose connect() succeeded.
C17_ConnectWithRetry ==
    /\ [][ConnectStep /\ ev'[1].err # "none"
            => \/ pc' = "connecting" /\ err' = err
               \/ pc' = "raised" /\ err' = "TimeoutError"]_vars
    /\ (pc = "connecting") ~> (pc = "loop" \/ (pc = "raised" /\ err = "TimeoutError"))
    /\ [](pc \in {"idle", "connecting"} \/ err = "TimeoutError"
             => mode = IDLE /\ sent = <<>> /\ sock = "none")
    /\ [][mode # mode' /\ mode = IDLE
            => /\ mode' = WALK_TO_GRASS
               /\ ConnectStep /\ ev'[1].err = "none"
               /\ sock' = "open" /\ conn_state' = CONNECTED]_vars

\* C17 witness: in server role the retrying has ended in TimeoutError after a
\* failed accept, the mode still IDLE
C17_Witness ==
    /\ pc = "raised" /\ err = "TimeoutError"
    /\ Len(ev) = 1 /\ ev[1].op = "connect" /\ ev[1].err = "OSError"
    /\ mode = IDLE /\ conn_state = LISTENING

\* C18: once close() has been called from outside while start()'s loop is
\* running, the loop unwinds: start() returns or raises.
C18_CloseUnwindsLoop == (Closed /\ pc = "loop") ~> (pc # "loop")

\* C19: decoding the line that encodes a macro gives back the same steps: the
\* same durations and the same button lists, steps and buttons in their order.
C19_MacroRoundTrip ==
    cmd_parsed # <<>>
        => /\ cmd_parsed[1].err = "none"
           /\ Len(cmd_parsed[1].steps) = Len(cmd_steps)
           /\ \A i \in 1..Len(cmd_steps) :
                /\ cmd_parsed[1].steps[i].duration = cmd_steps[i].duration
                /\ cmd_parsed[1].steps[i].buttons = cmd_steps[i].buttons

\* C19 witness: a macro of two different steps was sent and read back, one step
\* with a repeated button and a two-digit duration, the other without buttons
C19_Witness ==
    /\ cmd_parsed # <<>>
    /\ cmd_steps = << MacroStep(60, << "A", "A" >>), MacroStep(0, <<>>) >>
    /\ Len(cmd_line) > 20

\* the PP the snapshot gives for move slot `slot`: 0 for a slot outside 0..3
\* and for a slot whose key is missing
SlotPP(raw, slot) ==
    IF slot \in 0..3 /\ PPKey(slot) \in DOMAIN raw THEN raw[PPKey(slot)] ELSE 0

\* every slot listed in pp_recovery_moves has PP at or below pp_threshold
AllMonitoredLow(raw) ==
    \A i \in 1..Len(config.pp_recovery_moves) :
        SlotPP(raw, config.pp_recovery_moves[i]) <= config.pp_threshold

\* the commands issued in events, in order
Issued(events) ==
    LET sends == SelectSeq(events, LAMBDA e : e.op = "send")
    IN  [i \in 1..Len(sends) |-> sends[i].cmd]

\* C20: a frame handled in mode ENCOUNTER whose encounter is not shiny does
\* exactly one of two things.  If every monitored slot is low the mode becomes
\* HEAL and the to_center macro is the one command issued on that frame;
\* otherwise the attack macro (A, A) is the one command issued and, the send
\* having returned, the mode becomes WALK_TO_GRASS.
C20_NonShinyDecision ==
    [][FrameStep /\ mode = ENCOUNTER /\ HasEncounter(msg'.data)
               /\ ~ShinyByParity(Get(msg'.data, "enemy_tid", 0),
                                 Get(msg'.data, "enemy_sid", 0),
                                 Get(msg'.data, "enemy_personality", Wide(0, 0)))
         => IF AllMonitoredLow(msg'.data)
            THEN /\ mode' = HEAL
                 /\ Issued(ev') = << MacroPayload(config.to_center_macro) >>
            ELSE /\ Issued(ev') = << MacroPayload(attack_macro) >>
                 /\ mode' = IF pc' = "loop" THEN WALK_TO_GRASS ELSE ENCOUNTER]_vars

\* C20 witness: with slots 1 and 4 monitored, a frame without the key of slot
\* 1 was handled in ENCOUNTER: the mode is HEAL and the to_center macro went out
C20_Witness ==
    /\ config.pp_recovery_moves = << 1, 4 >>
    /\ msg = StateMsg(WildLowPP) /\ pc = "loop"
    /\ mode = HEAL
    /\ ev # <<>> /\ ev[Len(ev)] = SendEv(MacroPayload(to_center), "none")
    /\ \E i \in 1..Len(ev) : ev[i].op = "log"

\* the in_battle_flag of the snapshot is present and not zero
InBattleFlag(raw) == "in_battle_flag" \in DOMAIN raw /\ raw["in_battle_flag"] # 0

\* the snapshot carries an encounter whose identifiers make it shiny
ShinyFrame(raw) ==
    /\ HasEncounter(raw)
    /\ ShinyByParity(Get(raw, "enemy_tid", 0), Get(raw, "enemy_sid", 0),
                     Get(raw, "enemy_personality", Wide(0, 0)))

\* the snapshot shows full health: player_hp equals player_max_hp, a missing
\* key counting as 0
FullHealth(raw) == Get(raw, "player_hp", 0) = Get(raw, "player_max_hp", 0)

\* the mode edges a frame may take, each with the condition on the frame
ModeEdge(from, to, raw) ==
    \/ from \in {WALK_TO_GRASS, RETURN_TO_GRASS} /\ to = ENCOUNTER /\ InBattleFlag(raw)
    \/ from = ENCOUNTER /\ to = CATCH_SHINY /\ ShinyFrame(raw)
    \/ from = ENCOUNTER /\ to \in {HEAL, WALK_TO_GRASS}
         /\ HasEncounter(raw) /\ ~ShinyFrame(raw)
    \/ from = CATCH_SHINY /\ to = RETURN_TO_GRASS /\ ~InBattleFlag(raw)
    \/ from = HEAL /\ to = RETURN_TO_GRASS /\ ~InBattleFlag(raw) /\ FullHealth(raw)

\* C21: an iteration of the loop assigns the mode at most once; it changes the
\* mode only when it handled a state frame, and then only along WALK_TO_GRASS or
\* RETURN_TO_GRASS -> ENCOUNTER (frame in battle), ENCOUNTER -> CATCH_SHINY
\* (shiny encounter), ENCOUNTER -> HEAL or WALK_TO_GRASS (encounter not shiny),
\* CATCH_SHINY -> RETURN_TO_GRASS (frame not in battle) and HEAL ->
\* RETURN_TO_GRASS (frame not in battle, player_hp = player_max_hp).
C21_ModeEdges ==
    [][LoopStep
         => /\ Cardinality(At(ev', "mode")) <= 1
            /\ \A i \in At(ev', "mode") : ev'[i].to = mode'
            /\ At(ev', "mode") = {} => mode' = mode
            /\ mode' # mode => FrameStep /\ ModeEdge(mode, mode', msg'.data)]_vars

\* C21 witness: a frame out of battle at full health was handled in HEAL: the
\* to_center macro went out and the mode became RETURN_TO_GRASS
C21_Witness ==
    /\ pc = "loop" /\ mode = RETURN_TO_GRASS
    /\ Len(ev) = 3
    /\ ev[2] = SendEv(MacroPayload(to_center), "none")
    /\ ev[3] = ModeEv(RETURN_TO_GRASS)
    /\ msg.kind = "state" /\ ~InBattleFlag(msg.data) /\ FullHealth(msg.data)

\* C22: a frame handled in mode CATCH_SHINY logs nothing and leaves
\* encounters_seen and the encounter kept alone.  While the frame is in battle
\* the catch macro (B, DOWN, A, A) is the one command issued and the mode stays
\* CATCH_SHINY; on a frame out of battle nothing is issued and the mode becomes
\* RETURN_TO_GRASS.
C22_CatchSelfLoop ==
    [][FrameStep /\ mode = CATCH_SHINY
         => /\ At(ev', "log") = {}
            /\ UNCHANGED <<encounters_seen, current_encounter, logged>>
            /\ IF InBattleFlag(msg'.data)
               THEN /\ Len(Issued(ev')) = 1
                    /\ Issued(ev')[1].type = "macro"
                    /\ [i \in 1..Len(Issued(ev')[1].steps) |-> Issued(ev')[1].steps[i].buttons]
                         = << <<"B">>, <<"DOWN">>, <<"A">>, <<"A">> >>
                    /\ mode' = CATCH_SHINY
               ELSE /\ Issued(ev') = <<>>
                    /\ mode' = RETURN_TO_GRASS
                    /\ pc' = "loop"]_vars

\* C22 witness: a catch macro was written in CATCH_SHINY on a frame in battle,
\* and the frame after it, out of battle, sent nothing and moved the mode to
\* RETURN_TO_GRASS
C22_Witness ==
    /\ pc = "loop" /\ mode = RETURN_TO_GRASS
    /\ msg.kind = "state" /\ ~InBattleFlag(msg.data)
    /\ ev = << ReceiveEv("frame"), ModeEv(RETURN_TO_GRASS) >>
    /\ sent # <<>> /\ sent[Len(sent)] = CatchPayload

C24_HealUntilRecovered ==
    [][FrameStep /\ mode = HEAL
         => /\ Issued(ev') = IF config.to_center_macro = <<>> THEN <<>>
                             ELSE << MacroPayload(config.to_center_macro) >>
            /\ At(ev', "log") = {}
            /\ UNCHANGED <<encounters_seen, current_encounter, logged>>
            /\ mode' = IF pc' = "loop" /\ ~InBattleFlag(msg'.data) /\ FullHealth(msg'.data)
                       THEN RETURN_TO_GRASS ELSE HEAL]_vars

\* C24 witness: a frame out of battle below full health was handled in HEAL: the
\* to_center macro was written and the mode is still HEAL
C24_Witness ==
    /\ pc = "loop" /\ mode = HEAL
    /\ msg = StateMsg(Hurt)
    /\ ev = << ReceiveEv("frame"), SendEv(MacroPayload(to_center), "none") >>

\* C25: the mode is never BATTLE, so no frame is dispatched to _handle_battle;
\* once start() has connected the mode is one of WALK_TO_GRASS, ENCOUNTER,
\* CATCH_SHINY, HEAL and RETURN_TO_GRASS, whether the loop is running or an
\* error has ended it; a mode other than IDLE is never followed by IDLE.
C25_ReachableModes ==
    /\ [](mode # BATTLE)
    /\ [](pc = "loop" => mode \in (BotMode \ {IDLE, BATTLE}))
    /\ [](mode = IDLE \/ mode \in (BotMode \ {IDLE, BATTLE}))
    /\ [][mode # IDLE => mode' \in (BotMode \ {IDLE, BATTLE})]_vars
    /\ [][LoopStep => /\ mode \in (BotMode \ {IDLE, BATTLE})
                      /\ mode' \in (BotMode \ {IDLE, BATTLE})]_vars

\* C25 witness: the loop has attacked a wild opponent and is walking again,
\* where a BATTLE mode would have been entered
C25_Witness ==
    /\ pc = "loop" /\ mode = WALK_TO_GRASS
    /\ ev # <<>> /\ ev[Len(ev)] = ModeEv(WALK_TO_GRASS)
    /\ \E i \in 1..Len(ev) : ev[i] = SendEv(MacroPayload(attack_macro), "none")

\* C26: a frame handled in mode ENCOUNTER that carries no encounter
\* (in_battle_flag zero or missing, or enemy_species not above 0) does nothing:
\* no command is issued, nothing is logged, and mode, encounters_seen and the
\* encounter kept are unchanged, so the mode is still ENCOUNTER and the loop
\* goes on.
C26_NoEncounterNoOp ==
    [][FrameStep /\ mode = ENCOUNTER /\ ~HasEncounter(msg'.data)
         => /\ ev' = << ReceiveEv("frame") >>
            /\ UNCHANGED <<mode, encounters_seen, current_encounter, logged, sent>>
            /\ UNCHANGED <<pc, err, bridgeVars>>]_vars

\* C26 witness: in mode ENCOUNTER a frame in battle without an enemy species
\* was handled after an encounter had been counted
C26_Witness ==
    /\ pc = "loop" /\ mode = ENCOUNTER
    /\ msg = StateMsg(NoSpecies)
    /\ ev = << ReceiveEv("frame") >>
    /\ encounters_seen > 0

\* C27: an iteration of the loop that handled a frame whose encounter is shiny
\* issues no attack macro: no command of that iteration is a macro pressing A
\* then A.
C27_NoAttackOnShiny ==
    [][FrameStep /\ ShinyFrame(msg'.data)
         => \A i \in 1..Len(Issued(ev')) :
              /\ Issued(ev')[i] # MacroPayload(attack_macro)
              /\ Issued(ev')[i].type = "macro"
                   => [j \in 1..Len(Issued(ev')[i].steps) |-> Issued(ev')[i].steps[j].buttons]
                        # << <<"A">>, <<"A">> >>]_vars

\* C27 witness: after a wild opponent was attacked, a shiny encounter was
\* handled in mode ENCOUNTER with PP high enough to attack: the reset went out
\* and the mode is CATCH_SHINY
C27_Witness ==
    /\ pc = "loop" /\ mode = CATCH_SHINY
    /\ msg = StateMsg(ShinyHighPP)
    /\ encounters_seen = 2
    /\ ev # <<>> /\ ev[Len(ev)] = SendEv(ResetPayload, "none")
    /\ ~AllMonitoredLow(msg.data)

\* C28: the ordinals handed to EncounterLogger.log so far are 1, 2, ...,
\* encounters_seen in call order, so encounters_seen is the number of log calls
\* made; a step leaves encounters_seen as it is or adds 1 to it, making one log
\* call exactly when it adds 1.
C28_CounterMatchesLog ==
    /\ [](logged = [i \in 1..encounters_seen |-> i])
    /\ [][/\ encounters_seen' \in {encounters_seen, encounters_seen + 1}
          /\ Len(logged') = Len(logged) + (encounters_seen' - encounters_seen)
          /\ LoopStep => Cardinality(At(ev', "log")) = encounters_seen' - encounters_seen
          /\ ~LoopStep => encounters_seen' = encounters_seen]_vars

\* C28 witness: the second encounter has just been counted and logged with
\* ordinal 2
C28_Witness ==
    /\ encounters_seen = 2
    /\ logged = << 1, 2 >>
    /\ \E i \in 1..Len(ev) : ev[i].op = "log" /\ ev[i].n = 2

\* C29 as stated: when start() gives up connecting in server role, the
\* listening socket is open and the state is LISTENING as the TimeoutError
\* reaches the caller.
C29_TimeoutLeavesListening ==
    [][ConnectStep /\ pc' = "raised" /\ config.bridge_mode = PYTHON_SERVER
         => /\ err' = "TimeoutError"
            /\ server' = "open" /\ conn_state' = LISTENING]_vars

\* C29 amended: when start() gives up connecting in server role, the error is
\* TimeoutError and close() has not run: the bridge is as the last connect()
\* left it.  No peer socket is held; if a listening socket was held before the
\* last attempt or was bound by it, it is still open and the state is
\* LISTENING; if none was held and the bind failed, none is held and the state
\* is DISCONNECTED.
C29_TimeoutLeavesBridgeAsFailed ==
    [][ConnectStep /\ pc' = "raised" /\ config.bridge_mode = PYTHON_SERVER
         => /\ err' = "TimeoutError"
            /\ At(ev', "close") = {}
            /\ sock' = "none" /\ reader' = "none"
            /\ IF server = "open" \/ ev'[1].binds = 1
               THEN server' = "open" /\ conn_state' = LISTENING
               ELSE server' = "none" /\ conn_state' = DISCONNECTED]_vars

\* C29 witness: start() has given up in server role at an attempt that bound
\* the listening socket and whose accept() failed: the socket is still open
C29_Witness ==
    /\ pc = "raised" /\ err = "TimeoutError"
    /\ config.bridge_mode = PYTHON_SERVER
    /\ Len(ev) = 1 /\ ev[1].op = "connect" /\ ev[1].binds = 1
    /\ server = "open" /\ conn_state = LISTENING /\ sock = "none"

\* C30: after any sequence of connect(), sends, receive_state() and close()
\* calls, failed ones included, the state is CONNECTED exactly when a peer
\* socket is held, LISTENING only with a listening socket and no peer socket
\* held, and DISCONNECTED only with neither held.  In server role a connect()
\* whose accept failed leaves the state LISTENING with the listening socket
\* held; a connect() made while a listening socket is held binds none, and a
\* listening socket is given up only by close(), so that at most one is bound
\* between two close() calls.
C30_StateMatchesHandles ==
    /\ []((conn_state = CONNECTED) <=> (sock # "none"))
    /\ [](conn_state = LISTENING => server # "none" /\ sock = "none")
    /\ [](conn_state = DISCONNECTED => server = "none" /\ sock = "none")
    /\ [][ev' # <<>> /\ ev'[1].op = "connect" /\ ev'[1].err # "none"
              /\ config.bridge_mode = PYTHON_SERVER
              /\ (server # "none" \/ ev'[1].binds = 1)
            => conn_state' = LISTENING /\ server' = "open" /\ sock' = "none"]_vars
    /\ [][ev' # <<>> /\ ev'[1].op = "connect" /\ server # "none"
            => ev'[1].binds = 0 /\ server' = server]_vars
    /\ [][server # "none" /\ server' = "none" => ev' # <<>> /\ ev'[Len(ev')].op = "close"]_vars

\* C30 witness: in server role a second connect() has failed at accept on the
\* listening socket bound by an earlier call: the state is LISTENING
C30_Witness ==
    /\ config.bridge_mode = PYTHON_SERVER
    /\ Len(ev) = 1 /\ ev[1].op = "connect" /\ ev[1].err = "OSError"
    /\ "held" \in DOMAIN ev[1] /\ ~ev[1].held /\ ev[1].binds = 0
    /\ server = "open" /\ sock = "none" /\ conn_state = LISTENING

====
